---- MODULE Spec2Model ----
(***************************************************************************)
(* Model of src/main.py: the /analyze and /analyze-full handlers of the    *)
(* PDF processor, with the helpers they call (extract_json_from_response,  *)
(* download_pdf_from_drive) and the external collaborators they drive      *)
(* (document store, rasterizer, model client, json.loads).                 *)
(*                                                                         *)
(* Text is a sequence of one-character strings.  The characters "T", "I",  *)
(* "D", "B", "A" each stand for one complete JSON member (key, colon and   *)
(* value) so that JSON objects stay short; "x" is a character that is      *)
(* never legal JSON; every other character stands for itself.              *)
(***************************************************************************)
EXTENDS Integers, Sequences, FiniteSets, TLC

\* ---------------------------------------------------------------- bounds
MaxPages == 2
MaxChunks == 5

\* ------------------------------------------------------- program constants
ExcerptLimit == 1000
SizeLimit == 104857600
DefaultPage == 1

Min(a, b) == IF a < b THEN a ELSE b

\* ------------------------------------------------------------------- text
IsSpace(c) == c \in {" ", "\n"}

\* the backtick cannot be written in a string: "^" stands for it
Fence == <<"^", "^", "^">>

JsonMarker == <<"j", "s", "o", "n">>

\* s has the characters of w at positions i .. i+Len(w)-1
HasAt(s, i, w) ==
    /\ i >= 1
    /\ i + Len(w) - 1 <= Len(s)
    /\ \A k \in 1..Len(w) : s[i + k - 1] = w[k]

\* the least and the greatest element of a set of integers, none when empty
FirstOr(S, none) == IF S = {} THEN none ELSE CHOOSE x \in S : \A y \in S : x <= y

LastOr(S, none) == IF S = {} THEN none ELSE CHOOSE x \in S : \A y \in S : y <= x

\* str.strip(): drop leading and trailing whitespace
Span(s, keep) == IF keep = {} THEN <<>> ELSE SubSeq(s, FirstOr(keep, 0), LastOr(keep, 0))

Strip(s) == Span(s, {i \in 1..Len(s) : ~IsSpace(s[i])})

\* s[:n]
Prefix(s, n) == SubSeq(s, 1, Min(Len(s), n))

\* length of the whitespace run that starts at position p
SpaceRun(s, p) == FirstOr({q \in p..Len(s) : ~IsSpace(s[q])}, Len(s) + 1) - p

GreedyClose(s, c) == LastOr({e \in c..Len(s) : s[e] = "\n" /\ HasAt(s, e + 1, Fence)}, 0)

\* the lazy group opened at c: its end is the first position e >= c
\* holding a newline that the closing fence follows; 0 when there is none
LazyClose(s, c) == FirstOr({e \in c..Len(s) : s[e] = "\n" /\ HasAt(s, e + 1, Fence)}, 0)

\* the group when the whitespace run gives back all but its first k
\* characters: <<c, e>>, the group being s[c..e-1]; <<0, 0>> when k < 0
TailFrom(s, p, k) == IF k < 0 THEN <<0, 0>> ELSE <<p + k + 1, LazyClose(s, p + k + 1)>>

\* whitespace*, newline, lazy group, newline, fence, tried at position p, the
\* greedy whitespace* giving back one character at a time: the longest run
\* that a newline follows and after which the rest matches
TailMatch(s, p) ==
    TailFrom(s, p, LastOr({k \in 0..(SpaceRun(s, p) - 1) :
                              s[p + k] = "\n" /\ LazyClose(s, p + k + 1) > 0}, -1))

\* the first alternative when it matched, else the second
OrElse(first, second) == IF first[1] > 0 THEN first ELSE second

\* the whole pattern anchored at i: fence, then the optional json (taken
\* first, given back when the rest fails), then the tail
MatchAt(s, i) ==
    IF ~HasAt(s, i, Fence) THEN <<0, 0>>
    ELSE OrElse(IF HasAt(s, i + 3, JsonMarker) THEN TailMatch(s, i + 7) ELSE <<0, 0>>,
                TailMatch(s, i + 3))

SearchFrom(s, i) == IF i = 0 THEN <<0, 0>> ELSE MatchAt(s, i)

\* re.search: the match at the leftmost position that has one
Search(s) == SearchFrom(s, FirstOr({i \in 1..Len(s) : MatchAt(s, i)[1] > 0}, 0))

\* json_match.group(1).strip() if json_match else response_text.strip()
GroupOrText(response_text, json_match) ==
    IF json_match[1] > 0
    THEN Strip(SubSeq(response_text, json_match[1], json_match[2] - 1))
    ELSE Strip(response_text)

extract_json_from_response(response_text) == GroupOrText(response_text, Search(response_text))

\* ------------------------------------------------------------- json.loads
MemberChars == {"T", "I", "D", "B", "A"}

MemberKey(c) ==
    CASE c = "T" -> "page_type"
      [] c = "I" -> "page_title"
      [] c = "D" -> "structured_data"
      [] c = "B" -> "tables"
      [] OTHER   -> "additional_fields"

MemberValue(c) ==
    CASE c = "T" -> "str:sono1"
      [] c = "I" -> "str:title"
      [] c = "D" -> "obj:{k:v}"
      [] c = "B" -> "arr:[{}]"
      [] OTHER   -> "obj:{a:1}"

NoSpace(s) == SelectSeq(s, LAMBDA c : ~IsSpace(c))

\* { member , member , ... } with at least the two braces
IsObjectText(t) ==
    /\ Len(t) >= 2
    /\ t[1] = "{"
    /\ t[Len(t)] = "}"
    /\ Len(t) = 2 \/ Len(t) % 2 = 1
    /\ \A i \in 2..(Len(t) - 1) :
          IF i % 2 = 0 THEN t[i] \in MemberChars ELSE t[i] = ","

\* the mapping a JSON object with the members cs decodes to
ObjectWith(cs) ==
    [k \in {MemberKey(c) : c \in cs} |-> MemberValue(CHOOSE c \in cs : MemberKey(c) = k)]

ObjectOf(t) == ObjectWith({t[i] : i \in 2..(Len(t) - 1)} \cap MemberChars)

\* json.loads on a text without whitespace: kind "object" (a dict), "array"
\* (a list: has no .get) or "error" (JSONDecodeError)
Decode(t) ==
    IF IsObjectText(t) THEN [kind |-> "object", value |-> ObjectOf(t)]
    ELSE IF t = <<"[", "]">> THEN [kind |-> "array", value |-> <<>>]
    ELSE [kind |-> "error", value |-> <<>>]

JsonLoads(json_text) == Decode(NoSpace(json_text))

\* dict.get(key, default)
Get(d, key, default) == IF key \in DOMAIN d THEN d[key] ELSE default

\* ------------------------------------------------------------ the requests
\* A page number as the JSON body carries it: absent, null, an integer v, a
\* string, or a float of value v/2 (so v = 4 is 2.0 and v = 3 is 1.5).
PageInputs ==
    {[k |-> "absent", v |-> 0], [k |-> "null", v |-> 0], [k |-> "str", v |-> 0]}
    \cup {[k |-> "int", v |-> n] : n \in 0..(MaxPages + 1)}
    \cup {[k |-> "float", v |-> h] : h \in {3, 4}}

IntPage(n) == [k |-> "int", v |-> n]

Requests ==
    [body : BOOLEAN, fileId : BOOLEAN, geminiApiKey : BOOLEAN,
     page : PageInputs, endPage : PageInputs]

\* What the document store holds for the file id of the request.
Stores ==
    {[found |-> FALSE, mimeType |-> "application/pdf", size |-> 1, pages |-> 0],
     [found |-> TRUE, mimeType |-> "image/png", size |-> 1, pages |-> 1],
     [found |-> TRUE, mimeType |-> "application/pdf", size |-> SizeLimit + 1, pages |-> 1]}
    \cup {[found |-> TRUE, mimeType |-> "application/pdf", size |-> SizeLimit, pages |-> n] :
             n \in 0..MaxPages}

\* download_pdf_from_drive: the message of the exception it raises, or <<>>
DownloadError(st) ==
    IF ~st.found THEN <<"File not found">>
    ELSE IF st.mimeType # "application/pdf"
         THEN <<"File is not a PDF. MimeType: ", st.mimeType>>
    ELSE IF st.size > SizeLimit THEN <<"File size exceeds 100MB limit">>
    ELSE <<>>

\* jsonify({'error': ...}), status
ErrorResponse(status, msg) == [status |-> status, error |-> msg]

\* data.get('geminiApiKey') or os.environ.get('GEMINI_API_KEY')
HasKey(r, env) == r.geminiApiKey \/ env

\* ------------------------------------------------------ the collaborators
\* pdf2image.convert_from_bytes for one page: a list with the image, an
\* empty list, or an exception; a page outside the document has no image
\* (first_page below 1 is taken as 1, last_page above the count as the count,
\* and first_page > last_page gives the empty list)
RasterOutcomes(p, total) ==
    IF p >= 1 /\ p <= total THEN {"image", "none", "raise"} ELSE {"none", "raise"}

Obj(members) == <<"{">> \o members \o <<"}">>

Fenced(marker, gap, inner) == Fence \o marker \o gap \o <<"\n">> \o inner \o <<"\n">> \o Fence

LongText == [i \in 1..(ExcerptLimit + 1) |-> "x"]

\* the texts the model client is taken to answer with
ModelTexts ==
    {Fenced(JsonMarker, <<>>, Obj(<<"T", ",", "I">>)),
     Fenced(<<>>, <<" ">>, Obj(<<"T">>)),
     Obj(<<"T">>),
     Obj(<<>>),
     <<"[", "]">>,
     <<"x", "x">>}

\* model.generate_content(...).text: an exception or a text
ModelOutcomes == {<<"raise">>} \cup {<<"text", t>> : t \in ModelTexts}

\* ------------------------------------------------------------------ state
VARIABLES
    op,            \* the operation of the request: "idle", "analyze", "full", "extract"
    pc,            \* the position of the handler
    req,           \* the JSON body of the request
    env_key,       \* GEMINI_API_KEY is set in the environment
    store,         \* what the document store holds for the file id
    total_pages,   \* len(doc)
    end_page,      \* end_page once resolved against total_pages
    pages,         \* range(start_page, end_page + 1)
    idx,           \* position of the loop in pages
    results,       \* results of analyze_pdf_full
    errors,        \* errors of analyze_pdf_full
    rasterCalls,   \* page indices handed to pdf2image.convert_from_bytes, in call order
    modelCalls,    \* page indices whose image was handed to model.generate_content, in call order
    fates,         \* what happened to each page taken up, in order
    response,      \* the response of the handler; status 0 while there is none
    response_text, \* argument of extract_json_from_response
    json_text      \* its result

vars == <<op, pc, req, env_key, store, total_pages, end_page, pages, idx, results, errors,
          rasterCalls, modelCalls, fates, response, response_text, json_text>>

NoRequest ==
    [body |-> FALSE, fileId |-> FALSE, geminiApiKey |-> FALSE,
     page |-> [k |-> "absent", v |-> 0], endPage |-> [k |-> "absent", v |-> 0]]

NoResponse == [status |-> 0]

Init ==
    /\ op = "idle" /\ pc = "idle"
    /\ req = NoRequest /\ env_key = FALSE /\ store = CHOOSE st \in Stores : ~st.found
    /\ total_pages = 0 /\ end_page = IntPage(0) /\ pages = <<>> /\ idx = 1
    /\ results = <<>> /\ errors = <<>>
    /\ rasterCalls = <<>> /\ modelCalls = <<>> /\ fates = <<>>
    /\ response = NoResponse
    /\ response_text = <<>> /\ json_text = <<>>

pureVars == <<response_text, json_text>>

loopVars == <<pages, idx, results, errors, rasterCalls, modelCalls, fates>>

\* ------------------------------------------------------- analyze_pdf_full
\* data.get('startPage', 1)
StartPage(r) == IF r.page.k = "absent" THEN IntPage(DefaultPage) ELSE r.page

\* end_page is None or end_page > total_pages, for an integer or a float;
\* (a string makes the comparison raise TypeError)
ResolveEndPage(e, total) ==
    IF e.k \in {"absent", "null"} THEN IntPage(total)
    ELSE IF e.k = "int" /\ e.v > total THEN IntPage(total)
    ELSE IF e.k = "float" /\ e.v > 2 * total THEN IntPage(total)
    ELSE e

\* a request for /analyze-full arrives
ReceiveFull ==
    /\ pc = "idle"
    /\ \E r \in Requests, e \in BOOLEAN, st \in Stores :
          /\ req' = r
          /\ env_key' = e
          /\ store' = st
    /\ op' = "full"
    /\ pc' = "precheck"
    /\ UNCHANGED <<total_pages, end_page, loopVars, response, pureVars>>

\* lines 376-402: the response that ends the handler before the loop, or
\* NoResponse when the handler goes on
FullPrecheckResponse(r, env, st) ==
    IF ~r.body THEN ErrorResponse(500, <<"'NoneType' object has no attribute 'get'">>)
    ELSE IF ~r.fileId THEN ErrorResponse(400, <<"fileId is required">>)
    ELSE IF ~HasKey(r, env) THEN ErrorResponse(400, <<"geminiApiKey is required">>)
    ELSE IF DownloadError(st) # <<>> THEN ErrorResponse(500, DownloadError(st))
    ELSE IF r.endPage.k = "str"
         THEN ErrorResponse(500, <<"'>' not supported between instances of 'str' and 'int'">>)
    ELSE NoResponse

FullPrecheck ==
    /\ op = "full" /\ pc = "precheck"
    /\ IF FullPrecheckResponse(req, env_key, store) # NoResponse
       THEN /\ response' = FullPrecheckResponse(req, env_key, store)
            /\ pc' = "done"
            /\ UNCHANGED <<total_pages, end_page>>
       ELSE /\ total_pages' = store.pages
            /\ end_page' = ResolveEndPage(req.endPage, store.pages)
            /\ pc' = "range"
            /\ UNCHANGED response
    /\ UNCHANGED <<op, req, env_key, store, loopVars, pureVars>>

\* range(a, b + 1)
RangeDown(a, b) == [i \in 1..(IF b >= a THEN b - a + 1 ELSE 0) |-> b - i + 1]

Range(a, b) == [i \in 1..(IF b >= a THEN b - a + 1 ELSE 0) |-> a + i - 1]

\* line 407: range() takes integers only
FullEnterLoop ==
    /\ op = "full" /\ pc = "range"
    /\ IF StartPage(req).k = "int" /\ end_page.k = "int"
       THEN /\ pages' = Range(StartPage(req).v, end_page.v)
            /\ pc' = "loop"
            /\ UNCHANGED response
       ELSE /\ response' = ErrorResponse(500, <<"object cannot be interpreted as an integer">>)
            /\ pc' = "done"
            /\ UNCHANGED pages
    /\ idx' = 1
    /\ results' = <<>>
    /\ errors' = <<>>
    /\ UNCHANGED <<op, req, env_key, store, total_pages, end_page, rasterCalls, modelCalls,
                   fates, pureVars>>

\* str(e) of the JSONDecodeError json.loads raises
ParserMessage == "Expecting value: line 1 column 1 (char 0)"

\* what one pass of the loop body does with page p, given what the
\* rasterizer and the model client answer (lines 408-464)
ParseFate(analyzed) ==
    IF analyzed.kind = "error" THEN "parse_error"
    ELSE IF analyzed.kind = "array" THEN "not_object"
    ELSE "ok"

PageFate(raster, model) ==
    IF raster = "none" THEN "no_image"
    ELSE IF raster = "raise" THEN "raster_raise"
    ELSE IF model[1] = "raise" THEN "model_raise"
    ELSE ParseFate(JsonLoads(extract_json_from_response(model[2])))

\* str(e) of the exception the except clause of the loop catches
ExceptionMessage(fate) ==
    CASE fate = "raster_raise" -> <<"Unable to get page count.">>
      [] fate = "model_raise"  -> <<"503 The model is overloaded.">>
      [] fate = "parse_error"  -> <<ParserMessage>>
      [] OTHER                 -> <<"'list' object has no attribute 'get'">>

\* the text of the model, <<>> when the model was not reached or raised
TextOf(raster, model) == IF raster = "image" /\ model[1] = "text" THEN model[2] ELSE <<>>

\* lines 454-458
ResultEntryFirstPage(page_num, data) ==
    [page_number |-> DefaultPage,
     page_type |-> Get(data, "page_type", "str:unknown"),
     data |-> data]

ResultEntry(page_num, data) ==
    [page_number |-> page_num,
     page_type |-> Get(data, "page_type", "str:unknown"),
     data |-> data]

\* lines 419-423: no image
NoImageDropped(errs, page_num) == errs

NoImageErrors(errs, page_num) ==
    Append(errs, [page |-> page_num, error |-> <<"Failed to convert to image">>])

\* lines 460-464: the except clause of the loop
ExceptErrors(errs, page_num, fate) ==
    Append(errs, [page |-> page_num, error |-> ExceptionMessage(fate)])

\* the model is invoked once, and only on an image (line 450)
ModelInvocations(page_num, raster) == IF raster = "image" THEN <<page_num>> ELSE <<>>

\* continue (line 423) and the end of the except clause (line 464) both go on
\* with the next element of the range
BreakOnFailure(i, n, fate) == IF fate = "ok" THEN i + 1 ELSE n + 1

NextIndex(i, n, fate) == i + 1

\* one pass of the loop body (lines 408-464)
TakePage(page_num, raster, fate, text) ==
    /\ rasterCalls' = Append(rasterCalls, page_num)
    /\ modelCalls' = modelCalls \o ModelInvocations(page_num, raster)
    /\ results' = IF fate = "ok"
                  THEN Append(results, ResultEntry(page_num,
                          JsonLoads(extract_json_from_response(text)).value))
                  ELSE results
    /\ errors' = IF fate = "ok" THEN errors
                 ELSE IF fate = "no_image" THEN NoImageErrors(errors, page_num)
                 ELSE ExceptErrors(errors, page_num, fate)
    /\ fates' = Append(fates, [page |-> page_num, fate |-> fate, text |-> text])
    /\ idx' = NextIndex(idx, Len(pages), fate)

FullPage ==
    /\ op = "full" /\ pc = "loop"
    /\ idx <= Len(pages)
    /\ \E raster \in RasterOutcomes(pages[idx], total_pages), model \in ModelOutcomes :
          TakePage(pages[idx], raster, PageFate(raster, model), TextOf(raster, model))
    /\ UNCHANGED <<op, pc, req, env_key, store, total_pages, end_page, pages, response, pureVars>>

\* lines 466-479
BatchResponseAllOrNothing(res, errs, total) ==
    [status |-> IF errs = <<>> THEN 200 ELSE 500,
     success |-> errs = <<>>,
     total_pages |-> total,
     processed_pages |-> Len(res),
     error_pages |-> Len(errs),
     results |-> res,
     errors |-> errs]

BatchResponse(res, errs, total) ==
    [status |-> 200,
     success |-> TRUE,
     total_pages |-> total,
     processed_pages |-> Len(res),
     error_pages |-> Len(errs),
     results |-> res,
     errors |-> errs]

FullRespond ==
    /\ op = "full" /\ pc = "loop"
    /\ idx > Len(pages)
    /\ response' = BatchResponse(results, errors, total_pages)
    /\ pc' = "done"
    /\ UNCHANGED <<op, req, env_key, store, total_pages, end_page, loopVars, pureVars>>

\* ------------------------------------------------------- analyze_pdf_page
\* a comma between every two members
Interleave(ms) ==
    [i \in 1..(IF Len(ms) = 0 THEN 0 ELSE 2 * Len(ms) - 1) |->
        IF i % 2 = 1 THEN ms[(i + 1) \div 2] ELSE ","]

\* one JSON object per set of members
ObjectTexts ==
    {Obj(Interleave(SelectSeq(<<"T", "I", "D", "B", "A">>, LAMBDA c : c \in S))) :
        S \in SUBSET MemberChars}

ModelOutcomesOne ==
    ModelOutcomes \cup {<<"text", t>> : t \in ObjectTexts \cup {LongText}}

\* a request for /analyze arrives
ReceiveAnalyze ==
    /\ pc = "idle"
    /\ \E r \in Requests, e \in BOOLEAN, st \in Stores :
          /\ r.endPage.k = "absent"
          /\ req' = r
          /\ env_key' = e
          /\ store' = st
    /\ op' = "analyze"
    /\ pc' = "handle"
    /\ UNCHANGED <<total_pages, end_page, loopVars, response, pureVars>>

\* data.get('pageNumber', 1)
PageNumber(r) == IF r.page.k = "absent" THEN IntPage(DefaultPage) ELSE r.page

\* lines 229-260: the response that ends the handler before the page is
\* rasterized, or NoResponse when the handler goes on
AnalyzePrecheckResponse(r, env, st) ==
    IF ~r.body THEN ErrorResponse(400, <<"Request body is required">>)
    ELSE IF ~r.fileId THEN ErrorResponse(400, <<"fileId is required">>)
    ELSE IF ~HasKey(r, env) THEN ErrorResponse(400, <<"geminiApiKey is required">>)
    ELSE IF PageNumber(r).k # "int" \/ PageNumber(r).v < 1
         THEN ErrorResponse(400, <<"pageNumber must be a positive integer">>)
    ELSE IF DownloadError(st) # <<>> THEN ErrorResponse(500, DownloadError(st))
    ELSE IF PageNumber(r).v > st.pages
         THEN ErrorResponse(400, <<"Page ", ToString(PageNumber(r).v),
                                   " exceeds total pages (", ToString(st.pages), ")">>)
    ELSE NoResponse

\* lines 329-353: the record built from the parsed object
NormalizeOneDefault(analyzed, page_number, total) ==
    [metadata |-> [page_number |-> page_number,
                   total_pages |-> total,
                   page_type |-> Get(analyzed, "page_type", "str:unknown")],
     page_identification |-> [marker |-> Get(analyzed, "page_type", "str:"),
                              title |-> Get(analyzed, "page_title", "str:unknown")],
     structured_data |-> Get(analyzed, "structured_data", "obj:{}"),
     tables |-> Get(analyzed, "tables", "arr:[]"),
     validation |-> [schema_matched |-> TRUE, unmapped_fields |-> "arr:[]", gemini_notes |-> "str:"],
     additional_fields |-> Get(analyzed, "additional_fields", "obj:{}")]

Normalize(analyzed, page_number, total) ==
    [metadata |-> [page_number |-> page_number,
                   total_pages |-> total,
                   page_type |-> Get(analyzed, "page_type", "str:unknown")],
     page_identification |-> [marker |-> Get(analyzed, "page_type", "str:"),
                              title |-> Get(analyzed, "page_title", "str:")],
     structured_data |-> Get(analyzed, "structured_data", "obj:{}"),
     tables |-> Get(analyzed, "tables", "arr:[]"),
     validation |-> [schema_matched |-> TRUE, unmapped_fields |-> "arr:[]", gemini_notes |-> "str:"],
     additional_fields |-> Get(analyzed, "additional_fields", "obj:{}")]

\* lines 271-359: the response once the page has been rasterized
AnalyzePageResponse(page_number, total, model, fate) ==
    CASE fate = "no_image" ->
           ErrorResponse(500, <<"Failed to convert page ", ToString(page_number)>>)
      [] fate = "parse_error" ->
           [status |-> 500,
            success |-> FALSE,
            error |-> <<"JSON parse error: ", ParserMessage>>,
            raw_response |-> Prefix(model[2], ExcerptLimit)]
      [] fate = "ok" ->
           [status |-> 200,
            success |-> TRUE,
            result |-> Normalize(JsonLoads(extract_json_from_response(model[2])).value,
                                 page_number, total)]
      [] OTHER -> ErrorResponse(500, ExceptionMessage(fate))

\* lines 262-359 for the page of the request
AnalyzePage(page_number, raster, model, fate) ==
    /\ total_pages' = store.pages
    /\ rasterCalls' = Append(rasterCalls, page_number)
    /\ modelCalls' = modelCalls \o ModelInvocations(page_number, raster)
    /\ fates' = Append(fates, [page |-> page_number, fate |-> fate,
                               text |-> TextOf(raster, model)])
    /\ response' = AnalyzePageResponse(page_number, store.pages, model, fate)

\* the whole handler
AnalyzeHandle ==
    /\ op = "analyze" /\ pc = "handle"
    /\ IF AnalyzePrecheckResponse(req, env_key, store) # NoResponse
       THEN /\ response' = AnalyzePrecheckResponse(req, env_key, store)
            /\ UNCHANGED <<total_pages, rasterCalls, modelCalls, fates>>
       ELSE \E raster \in RasterOutcomes(PageNumber(req).v, store.pages),
               model \in ModelOutcomesOne :
               AnalyzePage(PageNumber(req).v, raster, model, PageFate(raster, model))
    /\ pc' = "done"
    /\ UNCHANGED <<op, req, env_key, store, end_page, pages, idx, results, errors, pureVars>>

\* ------------------------------------------------------------ the program
Next ==
    \/ ReceiveAnalyze
    \/ AnalyzeHandle
    \/ ReceiveFull
    \/ FullPrecheck
    \/ FullEnterLoop
    \/ FullPage
    \/ FullRespond

Spec == Init /\ [][Next]_vars

\* ---------------------------------------- extract_json_from_response alone
Chunks == {Fence, <<"^">>, <<"\n">> \o Fence, JsonMarker, <<"\n">>, <<" ">>, <<"x">>}

RECURSIVE TextsOf(_)
TextsOf(n) ==
    IF n = 0 THEN {<<>>}
    ELSE LET shorter == TextsOf(n - 1)
         IN  shorter \cup {t \o c : t \in shorter, c \in Chunks}

InitExtract ==
    /\ op = "extract" /\ pc = "ready"
    /\ req = NoRequest /\ env_key = FALSE /\ store = CHOOSE st \in Stores : ~st.found
    /\ total_pages = 0 /\ end_page = IntPage(0) /\ pages = <<>> /\ idx = 1
    /\ results = <<>> /\ errors = <<>>
    /\ rasterCalls = <<>> /\ modelCalls = <<>> /\ fates = <<>>
    /\ response = NoResponse
    /\ response_text \in TextsOf(MaxChunks)
    /\ json_text = <<>>

Extract ==
    /\ op = "extract" /\ pc = "ready"
    /\ json_text' = extract_json_from_response(response_text)
    /\ pc' = "done"
    /\ UNCHANGED <<op, req, env_key, store, total_pages, end_page, loopVars, response, response_text>>

NextExtract == Extract

SpecExtract == InitExtract /\ [][NextExtract]_vars

\* ------------------------------------------------------------- the claims
SeqSet(q) == {q[i] : i \in 1..Len(q)}

ResultPages == {results[i].page_number : i \in 1..Len(results)}

ErrorPages == {errors[i].page : i \in 1..Len(errors)}

Ascending(q) == \A i \in 1..Len(q), j \in 1..Len(q) : i < j => q[i] < q[j]

\* the batch went through its loop and answered
BatchCompleted == op = "full" /\ pc = "done" /\ "results" \in DOMAIN response

\* the batch got past everything that precedes the first page: the inputs
\* are there, the document is resolved and range() accepted the bounds
LoopEntered ==
    /\ op = "full"
    /\ pc \in {"loop", "done"}
    /\ FullPrecheckResponse(req, env_key, store) = NoResponse
    /\ StartPage(req).k = "int"
    /\ end_page.k = "int"

FailedAt(i) == fates[i].fate # "ok"

\* C1: isolation in analyze_pdf_full. Once a page N of the range has failed
\* (no image, an exception of the rasterizer or of the model, output that
\* does not parse), the loop goes on with the next page, and when the batch
\* has answered every page N+1..end_page has been handed to the rasterizer
\* and has its own entry in results or in errors.
C1_Isolation ==
    op = "full" =>
        \A i \in 1..Len(fates) :
            FailedAt(i) =>
                /\ pc = "loop" => idx = Len(fates) + 1
                /\ pc = "loop" /\ idx <= Len(pages) =>
                      pages[idx] = fates[Len(fates)].page + 1
                /\ pc = "done" =>
                      /\ "results" \in DOMAIN response
                      /\ \A m \in (fates[i].page + 1)..end_page.v :
                            /\ m \in SeqSet(rasterCalls)
                            /\ m \in ResultPages \cup ErrorPages

C1_Witness ==
    /\ BatchCompleted
    /\ Len(fates) >= 2
    /\ fates[1].fate = "model_raise"
    /\ fates[2].fate = "ok"
    /\ fates[2].page \in ResultPages

\* C2: a batch that completes its loop has as many entries as the range has
\* pages: Len(results) + Len(errors) = end_page - start_page + 1 when
\* start_page <= end_page (end_page as resolved), and none when start_page >
\* end_page.
C2_Count ==
    BatchCompleted =>
        LET start_page == StartPage(req).v
        IN  IF start_page <= end_page.v
            THEN Len(response.results) + Len(response.errors) = end_page.v - start_page + 1
            ELSE response.results = <<>> /\ response.errors = <<>>

C2_Witness ==
    /\ BatchCompleted
    /\ StartPage(req).v < end_page.v
    /\ \E i \in 1..Len(fates) : fates[i].fate = "no_image"
    /\ \E i \in 1..Len(fates) : fates[i].fate = "ok"

\* C3: in a completed batch no page is in results and in errors, no page is
\* twice in either, and together they hold exactly start_page..end_page.
C3_Partition ==
    BatchCompleted =>
        /\ ResultPages \cap ErrorPages = {}
        /\ Cardinality(ResultPages) = Len(results)
        /\ Cardinality(ErrorPages) = Len(errors)
        /\ ResultPages \cup ErrorPages = StartPage(req).v..end_page.v
        /\ response.results = results
        /\ response.errors = errors

C3_Witness ==
    /\ BatchCompleted
    /\ StartPage(req).v = 1
    /\ end_page.v = 2
    /\ ResultPages = {2}
    /\ ErrorPages = {1}

\* C4: the pages of a batch are taken up one at a time in the order
\* start_page, start_page + 1, ..., end_page, each once; the model is invoked
\* at most once per page and only on a page that was rasterized; results and
\* errors are each in ascending page order.
C4_Order ==
    op = "full" =>
        /\ \A i \in 1..Len(rasterCalls) : rasterCalls[i] = StartPage(req).v + i - 1
        /\ \A i \in 1..Len(rasterCalls) : rasterCalls[i] <= end_page.v
        /\ BatchCompleted /\ StartPage(req).v <= end_page.v =>
              Len(rasterCalls) = end_page.v - StartPage(req).v + 1
        /\ Ascending(modelCalls)
        /\ SeqSet(modelCalls) \subseteq SeqSet(rasterCalls)
        /\ Ascending([i \in 1..Len(results) |-> results[i].page_number])
        /\ Ascending([i \in 1..Len(errors) |-> errors[i].page])

C4_Witness ==
    /\ BatchCompleted
    /\ Len(rasterCalls) >= 2
    /\ Len(modelCalls) >= 2
    /\ Len(errors) >= 2

\* C5: every page index a batch hands to the rasterizer or to the model is
\* at least 1 and at most the page count of the document.
C5_IndexInDocument ==
    op = "full" =>
        \A p \in SeqSet(rasterCalls) \cup SeqSet(modelCalls) : p >= 1 /\ p <= total_pages

\* C6: a request with an input error (no document id, no credential, a page
\* number that is not a positive integer; for /analyze also a page number
\* above the page count) or whose document does not resolve is answered
\* with an error, and no page is rasterized and no model call is made.
MissingInput == ~req.body \/ ~req.fileId \/ ~HasKey(req, env_key)

BadPageNumber == req.page.k \in {"null", "str", "float"} \/ (req.page.k = "int" /\ req.page.v < 1)

Unresolved == DownloadError(store) # <<>>

ExceedsTotal == op = "analyze" /\ PageNumber(req).k = "int" /\ PageNumber(req).v > store.pages

C6_RejectedBeforePages ==
    op \in {"analyze", "full"} /\ (MissingInput \/ BadPageNumber \/ Unresolved \/ ExceedsTotal) =>
        /\ rasterCalls = <<>>
        /\ modelCalls = <<>>
        /\ pc = "done" => "error" \in DOMAIN response /\ "success" \notin DOMAIN response

\* C7: once a batch has got past everything that precedes its first page, no
\* failure of a page becomes an error of the batch: it answers success with
\* the failures in errors only, and processed_pages and error_pages are the
\* lengths of results and errors.  An error response of a batch is given
\* before any page is taken up.
C7_NoEscalation ==
    /\ LoopEntered /\ pc = "done" =>
          /\ "success" \in DOMAIN response
          /\ response.status = 200
          /\ response.success = TRUE
          /\ response.processed_pages = Len(response.results)
          /\ response.error_pages = Len(response.errors)
          /\ \A i \in 1..Len(fates) : FailedAt(i) =>
                fates[i].page \in {response.errors[j].page : j \in 1..Len(response.errors)}
    /\ op = "full" /\ pc = "done" /\ "success" \notin DOMAIN response => fates = <<>>

C7_Witness ==
    /\ LoopEntered /\ pc = "done"
    /\ \E i \in 1..Len(fates) : fates[i].fate = "raster_raise"
    /\ \E i \in 1..Len(fates) : fates[i].fate = "parse_error"
    /\ response.error_pages = 2

\* C8: a page whose model output does not parse gives an error that carries
\* the message of the parser and the first ExcerptLimit characters of the
\* raw response, in /analyze and for every page of /analyze-full.
CarriesExcerpt(e, text) ==
    /\ ParserMessage \in SeqSet(e.error)
    /\ "raw_response" \in DOMAIN e
    /\ e.raw_response = Prefix(text, ExcerptLimit)

C8_ParseErrorExcerpt ==
    /\ op = "analyze" /\ pc = "done" /\ Len(fates) = 1 /\ fates[1].fate = "parse_error" =>
          CarriesExcerpt(response, fates[1].text)
    /\ op = "full" =>
          \A i \in 1..Len(fates) :
              fates[i].fate = "parse_error" =>
                  \E j \in 1..Len(errors) :
                      errors[j].page = fates[i].page /\ CarriesExcerpt(errors[j], fates[i].text)

\* C9: /analyze builds its record from any parsed object: a missing
\* page_title, structured_data, tables or additional_fields takes the empty
\* string, mapping, sequence, mapping; a missing page_type gives "unknown";
\* what is present is passed on unchanged.
Parsed == JsonLoads(extract_json_from_response(fates[1].text)).value

Answered == op = "analyze" /\ pc = "done" /\ Len(fates) = 1 /\ fates[1].fate = "ok"

FieldsDefaulted ==
    /\ "result" \in DOMAIN response
    /\ response.status = 200
    /\ response.result.page_identification.title = Get(Parsed, "page_title", "str:")
    /\ response.result.structured_data = Get(Parsed, "structured_data", "obj:{}")
    /\ response.result.tables = Get(Parsed, "tables", "arr:[]")
    /\ response.result.additional_fields = Get(Parsed, "additional_fields", "obj:{}")
    /\ response.result.metadata.page_type = Get(Parsed, "page_type", "str:unknown")

\* as stated: "unknown" wherever the record gives the page type
C9_AsStated ==
    Answered =>
        /\ FieldsDefaulted
        /\ response.result.page_identification.marker = Get(Parsed, "page_type", "str:unknown")

\* as amended: "unknown" in the metadata block, the empty string in the
\* identification block
C9_Normalization ==
    Answered =>
        /\ FieldsDefaulted
        /\ response.result.page_identification.marker = Get(Parsed, "page_type", "str:")

C9_Witness ==
    /\ Answered
    /\ DOMAIN Parsed = {"tables"}
    /\ response.result.metadata.page_type = "str:unknown"
    /\ response.result.tables = "arr:[{}]"

\* C10: extract_json_from_response answers for every text.  A fenced block
\* is an opening fence at i, the optional json marker, a newline, the content
\* s[c..e-1], a newline at e and the closing fence.
Extracted == op = "extract" /\ pc = "done"

\* as stated: the newline follows the opening (and the marker) at once
PlainBlock(s, i, c, e) ==
    /\ HasAt(s, i, Fence)
    /\ \/ c = i + 4
       \/ c = i + 8 /\ HasAt(s, i + 3, JsonMarker)
    /\ c <= Len(s)
    /\ s[c - 1] = "\n"
    /\ e \in c..Len(s)
    /\ s[e] = "\n"
    /\ HasAt(s, e + 1, Fence)

\* as the pattern has it: whitespace may stand between the opening (and the
\* marker) and the newline that precedes the content
Block(s, i, c, e) ==
    /\ HasAt(s, i, Fence)
    /\ \E m \in {i + 3, i + 7} :
          /\ m = i + 7 => HasAt(s, i + 3, JsonMarker)
          /\ c - 1 >= m
          /\ c <= Len(s)
          /\ \A q \in m..(c - 1) : IsSpace(s[q])
    /\ s[c - 1] = "\n"
    /\ e \in c..Len(s)
    /\ s[e] = "\n"
    /\ HasAt(s, e + 1, Fence)

Opens(s) == {i \in 1..Len(s) : HasAt(s, i, Fence)}

Closes(s) == {e \in 1..Len(s) : s[e] = "\n" /\ HasAt(s, e + 1, Fence)}

\* the blocks of s, each as <<opening, first of content, closing newline>>
PlainBlocks(s) ==
    {t \in Opens(s) \X (1..Len(s)) \X Closes(s) : PlainBlock(s, t[1], t[2], t[3])}

Blocks(s) ==
    {t \in Opens(s) \X (1..Len(s)) \X Closes(s) : Block(s, t[1], t[2], t[3])}

\* as stated: the trimmed interior of the first block (first opening, first
\* closing), else the trimmed text
C10_AsStated ==
    Extracted =>
        LET s  == response_text
            bs == PlainBlocks(s)
        IN  IF bs # {}
            THEN \E t \in bs :
                    /\ \A u \in bs : t[1] <= u[1] /\ (u[1] = t[1] => t[3] <= u[3])
                    /\ json_text = Strip(SubSeq(s, t[2], t[3] - 1))
            ELSE json_text = Strip(s)

\* as amended: whitespace is allowed before the newline; of the blocks at the
\* first opening that has one, the content starts after the last newline that
\* can start one and ends at the first closing after that
C10_Extract ==
    Extracted =>
        LET s  == response_text
            bs == Blocks(s)
        IN  IF bs # {}
            THEN \E t \in bs :
                    /\ \A u \in bs :
                          /\ t[1] <= u[1]
                          /\ u[1] = t[1] => u[2] <= t[2]
                          /\ u[1] = t[1] /\ u[2] = t[2] => t[3] <= u[3]
                    /\ json_text = Strip(SubSeq(s, t[2], t[3] - 1))
            ELSE json_text = Strip(s)

C10_Witness ==
    /\ Extracted
    /\ Blocks(response_text) # {}
    /\ PlainBlocks(response_text) = {}
    /\ json_text = <<"x">>
    /\ Len(response_text) > 9

====
